---- MODULE Spec2Model ----
(***************************************************************************)
(* Model of mastermind.py: the game configuration (MastermindGameUtils),   *)
(* the feedback oracle (_auto_feedback), the computer code breaker         *)
(* (ComputerCodeBreaker: validity matrix, unseen/right colour sets,        *)
(* randomized backtracking search) and the turn loop (play_mastermind).    *)
(*                                                                         *)
(* Conventions.  Positions are 0 .. n_positions-1 and colour indices are   *)
(* 0 .. n_colors-1 as in the source; a code holds colours 1 .. n_colors    *)
(* (index + 1).  Lists are functions over 0 .. len-1.  Python's None is    *)
(* None (0) for an entry of current_guess and NoValue (the empty list)     *)
(* for a guess, a feedback or a code that does not exist.                  *)
(***************************************************************************)
EXTENDS Integers, Sequences, FiniteSets, TLC

\* Bounds of the model: the largest colour count and position count tried.
MaxColors == 3
MaxPositions == 3

None == 0
NoValue == << >>

VARIABLES
    pc,                 \* position of the program (see the actions)
    n_colors,           \* MastermindGameUtils.n_colors (constructor argument)
    n_positions,        \* MastermindGameUtils.n_positions
    duplicates_allowed, \* MastermindGameUtils.duplicates_allowed
    auto_feedback,      \* TRUE: ComputerCodeMaker or HumanCodeMaker(auto_feedback=True)
    code,               \* CodeMaker._code
    valid_guess,        \* ComputerCodeBreaker._valid_guess
    unseen_colors,      \* ComputerCodeBreaker._unseen_colors
    right_colors,       \* ComputerCodeBreaker._right_colors
    right_colors_found, \* ComputerCodeBreaker._right_colors_found
    current_guess,      \* the list shared by all frames of _make_guess
    colors_to_check,    \* the mask shared by all frames of _make_guess
    stack,              \* frames of _make_guess: sorted valid_colors, colours tried
    guess,              \* play_mastermind's guess
    feedback,           \* play_mastermind's feedback
    history,            \* oracle games: the (guess, feedback) pairs given to
                        \* receive_feedback so far (kept for stating properties)
    n_guesses           \* number of make_guess calls so far

tracker == <<valid_guess, unseen_colors, right_colors, right_colors_found>>
search == <<current_guess, colors_to_check, stack>>
config == <<n_colors, n_positions, duplicates_allowed, auto_feedback>>
vars == <<pc, config, code, tracker, search, guess, feedback, history, n_guesses>>

Positions == 0 .. (n_positions - 1)
Colors == 0 .. (n_colors - 1)
Pegs == {"b", "w", "."}

Range(f) == {f[x] : x \in DOMAIN f}
\* len() of a list
Length(l) == Cardinality(DOMAIN l)

\* MakeGuess is guarded by this cap; no game of the program gets near it.
GuessCap == MaxColors * MaxPositions + 2

----------------------------------------------------------------------------
\* MastermindGameUtils

\* Faulty variant of NotEnoughColors: off by one.
NotEnoughColors_off_by_one == ~duplicates_allowed /\ n_positions > n_colors + 1

\* __init__: the check that raises ValueError.
NotEnoughColors == ~duplicates_allowed /\ n_positions > n_colors

\* validate_code: the codes it accepts (also what random_code can return).
Codes ==
    {c \in [Positions -> 1 .. n_colors] :
        duplicates_allowed \/ Cardinality(Range(c)) = n_positions}

\* validate_feedback: the feedbacks it accepts.
Feedbacks == [Positions -> Pegs]

----------------------------------------------------------------------------
\* module-level functions

\* Faulty variant of _is_guess_correct: answers after the first peg.
_is_guess_correct_first_peg(fb) ==
    IF fb # NoValue THEN fb[0] = "b" ELSE FALSE

_is_guess_correct(fb) ==
    IF fb # NoValue THEN \A p \in DOMAIN fb : fb[p] = "b" ELSE FALSE

\* Faulty variant of _auto_feedback: no white pegs.
_auto_feedback_miss(secret, g) ==
    [p \in DOMAIN g |-> IF g[p] = secret[p] THEN "b" ELSE "."]

_auto_feedback(secret, g) ==
    [p \in DOMAIN g |->
        IF g[p] = secret[p] THEN "b"
        ELSE IF g[p] \in Range(secret) THEN "w"
        ELSE "."]

----------------------------------------------------------------------------
\* ComputerCodeBreaker: the tracker

\* __init__: every (position, colour) pair valid.
InitialValidGuess == [p \in Positions |-> [c \in Colors |-> TRUE]]

\* "self._valid_guess[_pos][color - 1] = False" for every _pos.
InvalidateColor(vg, c) ==
    [p \in DOMAIN vg |-> [vg[p] EXCEPT ![c] = FALSE]]

\* "self._valid_guess[pos][_col] = False" for every _col.
InvalidateRow(vg, pos) ==
    [vg EXCEPT ![pos] = [c \in DOMAIN vg[pos] |-> FALSE]]

\* Faulty variant of BlackPeg: the colour is made valid at every position.
BlackPeg_revalidate_all(vg, pos, c) ==
    [p \in DOMAIN vg |->
        [InvalidateRow(vg, pos)[p] EXCEPT ![c] = TRUE]]

\* Faulty variant of BlackPeg: the other colours of the position stay valid.
BlackPeg_keep_row(vg, pos, c) ==
    [(IF ~duplicates_allowed THEN InvalidateColor(vg, c) ELSE vg)
        EXCEPT ![pos][c] = TRUE]

\* peg == 'b': the matrix after the branch.
BlackPeg(vg, pos, c) ==
    LET vg1 == IF ~duplicates_allowed THEN InvalidateColor(vg, c) ELSE vg
        vg2 == InvalidateRow(vg1, pos)
    IN  [vg2 EXCEPT ![pos][c] = TRUE]

\* Faulty variant of WhitePeg: the matrix is left alone.
WhitePeg_no_effect(vg, pos, c) == vg

\* peg == 'w': the matrix after the branch.
WhitePeg(vg, pos, c) == [vg EXCEPT ![pos][c] = FALSE]

\* else (wrong colour): the matrix after the branch.
MissPeg(vg, pos, c) == InvalidateColor(vg, c)

\* Faulty variant of RightAfterPeg: a white peg does not add the colour.
RightAfterPeg_black_only(right, peg, c) ==
    IF peg = "b" THEN right \cup {c} ELSE right

\* "self._right_colors.add(color - 1)" in the 'b' and 'w' branches.
RightAfterPeg(right, peg, c) ==
    IF peg \in {"b", "w"} THEN right \cup {c} ELSE right

\* Faulty variant of UnseenAfterPeg: a missed colour stays unseen.
UnseenAfterPeg_not_on_miss(unseen, peg, c) ==
    IF peg \in {"b", "w"} THEN unseen \ {c} ELSE unseen

\* Faulty variant of UnseenAfterPeg: only a missed colour is removed.
UnseenAfterPeg_on_miss_only(unseen, peg, c) ==
    IF peg = "." THEN unseen \ {c} ELSE unseen

\* "if color - 1 in self._unseen_colors: self._unseen_colors.remove(color - 1)",
\* whatever the peg.
UnseenAfterPeg(unseen, peg, c) == unseen \ {c}

\* One iteration of the loop of receive_feedback, on the tracker fields t.
ReceivePeg(t, pos, peg, color) ==
    LET c == color - 1 IN
    [valid_guess |->
        IF peg = "b" THEN BlackPeg(t.valid_guess, pos, c)
        ELSE IF peg = "w" THEN WhitePeg(t.valid_guess, pos, c)
        ELSE MissPeg(t.valid_guess, pos, c),
     unseen_colors |-> UnseenAfterPeg(t.unseen_colors, peg, c),
     right_colors |-> RightAfterPeg(t.right_colors, peg, c)]

\* The loop of receive_feedback from position pos on.
RECURSIVE ReceiveLoop(_, _, _, _)
ReceiveLoop(t, g, fb, pos) ==
    IF pos \notin DOMAIN g THEN t
    ELSE ReceiveLoop(ReceivePeg(t, pos, fb[pos], g[pos]), g, fb, pos + 1)

\* Faulty variant of _check_right_colors_found: off by one.
_check_right_colors_found_early(right, unseen) ==
    IF ~duplicates_allowed
    THEN Cardinality(right) >= n_positions - 1
    ELSE Cardinality(unseen) <= 1

_check_right_colors_found(right, unseen) ==
    IF ~duplicates_allowed
    THEN Cardinality(right) = n_positions
    ELSE unseen = {}

\* Faulty variant of UnseenWhenFound: the set is not cleared.
UnseenWhenFound_kept(unseen) == unseen

\* "self._unseen_colors = set()" once the colours are found.
UnseenWhenFound(unseen) == {}

\* receive_feedback(guess, feedback): the tracker fields after the call.
receive_feedback(g, fb) ==
    LET t == ReceiveLoop([valid_guess |-> valid_guess,
                          unseen_colors |-> unseen_colors,
                          right_colors |-> right_colors], g, fb, 0)
        now_found == ~right_colors_found
                     /\ _check_right_colors_found(t.right_colors, t.unseen_colors)
    IN  [valid_guess |-> t.valid_guess,
         unseen_colors |-> IF now_found THEN UnseenWhenFound(t.unseen_colors)
                           ELSE t.unseen_colors,
         right_colors |-> t.right_colors,
         right_colors_found |-> right_colors_found \/ now_found]

----------------------------------------------------------------------------
\* ComputerCodeBreaker: the search

\* make_guess: "color in self._right_colors or color in self._unseen_colors".
Checkable(color) == color \in right_colors \/ color \in unseen_colors

\* _make_guess: the viable colours at a position, before shuffling.
ValidColors(ctc, pos) ==
    {color \in Colors : ctc[color] /\ valid_guess[pos][color]}

\* Faulty variant of SortKey: an unseen colour already in the guess is not
\* put back.
SortKey_no_penalty(color, cg) ==
    IF color \in unseen_colors THEN 0 ELSE 1

\* _make_guess: the sort key (the lambda), evaluated on the list cg.
SortKey(color, cg) ==
    IF color \in unseen_colors
    THEN 2 * (IF color + 1 \in Range(cg) THEN 1 ELSE 0)
    ELSE 1

\* random.shuffle then the stable sort by SortKey: every arrangement of the
\* colours S that is ascending in the key can result.
SortedOrders(S, cg) ==
    {o \in [0 .. (Cardinality(S) - 1) -> S] :
        /\ Range(o) = S
        /\ \A i, j \in DOMAIN o : i < j => SortKey(o[i], cg) <= SortKey(o[j], cg)}

current_position == Len(stack)
Top == stack[Len(stack)]
\* the colour the for loop of frame f is trying
Tried(f) == f.valid_colors[f.next - 1]

----------------------------------------------------------------------------
\* The program: __main__ with the computer code breaker, play_mastermind.

Init ==
    /\ pc = "init"
    /\ n_colors \in 1 .. MaxColors
    /\ n_positions \in 1 .. MaxPositions
    /\ duplicates_allowed \in BOOLEAN
    /\ auto_feedback \in BOOLEAN
    /\ code = NoValue
    /\ valid_guess = NoValue
    /\ unseen_colors = {}
    /\ right_colors = {}
    /\ right_colors_found = FALSE
    /\ current_guess = NoValue
    /\ colors_to_check = NoValue
    /\ stack = << >>
    /\ guess = NoValue
    /\ feedback = NoValue
    /\ history = << >>
    /\ n_guesses = 0

\* MastermindGameUtils.__init__ raises ValueError: nothing else is built.
ConstructRejected ==
    /\ pc = "init"
    /\ NotEnoughColors
    /\ pc' = "error"
    /\ UNCHANGED <<config, code, tracker, search, guess, feedback, history, n_guesses>>

\* MastermindGameUtils.__init__ and ComputerCodeBreaker.__init__.
Construct ==
    /\ pc = "init"
    /\ ~NotEnoughColors
    /\ valid_guess' = InitialValidGuess
    /\ unseen_colors' = Colors
    /\ right_colors' = {}
    /\ right_colors_found' = FALSE
    /\ pc' = "make_code"
    /\ UNCHANGED <<config, code, search, guess, feedback, history, n_guesses>>

\* code_maker.make_code(): random_code() or a validated input.
MakeCode ==
    /\ pc = "make_code"
    /\ code' \in Codes
    /\ pc' = "make_guess"
    /\ UNCHANGED <<config, tracker, search, guess, feedback, history, n_guesses>>

\* make_guess up to its call of _make_guess.
MakeGuess ==
    /\ pc = "make_guess"
    /\ n_guesses < GuessCap
    /\ current_guess' = [p \in Positions |-> None]
    /\ colors_to_check' = [color \in Colors |-> Checkable(color)]
    /\ stack' = << >>
    /\ n_guesses' = n_guesses + 1
    /\ pc' = "_make_guess"
    /\ UNCHANGED <<config, code, tracker, guess, feedback, history>>

\* _make_guess at current_position == n_positions: current_guess is
\* returned, and every enclosing frame returns it in turn.
ReturnGuess ==
    /\ pc = "_make_guess"
    /\ current_position = n_positions
    /\ guess' = current_guess
    /\ current_guess' = NoValue
    /\ colors_to_check' = NoValue
    /\ stack' = << >>
    /\ pc' = "give_feedback"
    /\ UNCHANGED <<config, code, tracker, feedback, history, n_guesses>>

\* _make_guess below n_positions: valid_colors is built, shuffled, sorted.
SortColors ==
    /\ pc = "_make_guess"
    /\ current_position < n_positions
    /\ \E o \in SortedOrders(ValidColors(colors_to_check, current_position),
                             current_guess) :
          stack' = Append(stack, [valid_colors |-> o, next |-> 0])
    /\ pc' = "for"
    /\ UNCHANGED <<config, code, tracker, current_guess, colors_to_check,
                   guess, feedback, history, n_guesses>>

\* Faulty variant of TryColor: the colour is not marked in colors_to_check.
TryColor_reuse ==
    /\ pc = "for"
    /\ Top.next < Length(Top.valid_colors)
    /\ LET color == Top.valid_colors[Top.next]
           pos == current_position - 1
       IN  /\ colors_to_check' = colors_to_check
           /\ current_guess' = [current_guess EXCEPT ![pos] = color + 1]
    /\ stack' = [stack EXCEPT ![Len(stack)].next = @ + 1]
    /\ pc' = "_make_guess"
    /\ UNCHANGED <<config, code, tracker, guess, feedback, history, n_guesses>>

\* Faulty variant of TryColor: the colour is removed from the tracker's unseen set.
TryColor_marks_seen ==
    /\ pc = "for"
    /\ Top.next < Length(Top.valid_colors)
    /\ LET color == Top.valid_colors[Top.next]
           pos == current_position - 1
       IN  /\ colors_to_check' =
                 IF duplicates_allowed THEN colors_to_check
                 ELSE [colors_to_check EXCEPT ![color] = FALSE]
           /\ current_guess' = [current_guess EXCEPT ![pos] = color + 1]
           /\ unseen_colors' = unseen_colors \ {color}
    /\ stack' = [stack EXCEPT ![Len(stack)].next = @ + 1]
    /\ pc' = "_make_guess"
    /\ UNCHANGED <<config, code, valid_guess, right_colors, right_colors_found,
                   guess, feedback, history, n_guesses>>

\* The for loop takes its next colour: marks it, places it, and recurses.
TryColor ==
    /\ pc = "for"
    /\ Top.next < Length(Top.valid_colors)
    /\ LET color == Top.valid_colors[Top.next]
           pos == current_position - 1
       IN  /\ colors_to_check' =
                 IF duplicates_allowed THEN colors_to_check
                 ELSE [colors_to_check EXCEPT ![color] = FALSE]
           /\ current_guess' = [current_guess EXCEPT ![pos] = color + 1]
    /\ stack' = [stack EXCEPT ![Len(stack)].next = @ + 1]
    /\ pc' = "_make_guess"
    /\ UNCHANGED <<config, code, tracker, guess, feedback, history, n_guesses>>

\* Faulty variant of Backtrack: the colour is not restored in colors_to_check.
Backtrack_no_restore ==
    /\ pc = "for"
    /\ Top.next = Length(Top.valid_colors)
    /\ Len(stack) > 1
    /\ stack' = SubSeq(stack, 1, Len(stack) - 1)
    /\ pc' = "for"
    /\ UNCHANGED <<config, code, tracker, current_guess, colors_to_check,
                   guess, feedback, history, n_guesses>>

\* The for loop is exhausted: "return None" to the frame below, which
\* restores its colour (no duplicates) and goes on with its loop.
Backtrack ==
    /\ pc = "for"
    /\ Top.next = Length(Top.valid_colors)
    /\ Len(stack) > 1
    /\ LET below == stack[Len(stack) - 1] IN
          colors_to_check' =
              IF duplicates_allowed THEN colors_to_check
              ELSE [colors_to_check EXCEPT ![Tried(below)] = TRUE]
    /\ stack' = SubSeq(stack, 1, Len(stack) - 1)
    /\ pc' = "for"
    /\ UNCHANGED <<config, code, tracker, current_guess, guess, feedback,
                   history, n_guesses>>

\* The for loop of the first frame is exhausted: make_guess returns None.
ReturnNone ==
    /\ pc = "for"
    /\ Top.next = Length(Top.valid_colors)
    /\ Len(stack) = 1
    /\ guess' = NoValue
    /\ current_guess' = NoValue
    /\ colors_to_check' = NoValue
    /\ stack' = << >>
    /\ pc' = "give_feedback"
    /\ UNCHANGED <<config, code, tracker, feedback, history, n_guesses>>

\* play_mastermind, guess is None: the message is printed and the loop ends.
NoGuess ==
    /\ pc = "give_feedback"
    /\ guess = NoValue
    /\ pc' = "done"
    /\ UNCHANGED <<config, code, tracker, search, guess, feedback, history, n_guesses>>

\* give_feedback: the oracle, or any feedback validate_feedback accepts.
GivenFeedbacks ==
    IF auto_feedback THEN {_auto_feedback(code, guess)} ELSE Feedbacks

\* Faulty variant of GiveFeedback: no break on a correct guess.
GiveFeedback_no_break ==
    /\ pc = "give_feedback"
    /\ guess # NoValue
    /\ \E fb \in GivenFeedbacks :
          /\ feedback' = fb
          /\ pc' = "receive_feedback"
    /\ UNCHANGED <<config, code, tracker, search, guess, history, n_guesses>>

\* play_mastermind, guess is not None: give_feedback, then the break or the
\* way to receive_feedback.
GiveFeedback ==
    /\ pc = "give_feedback"
    /\ guess # NoValue
    /\ \E fb \in GivenFeedbacks :
          /\ feedback' = fb
          /\ pc' = IF _is_guess_correct(fb) THEN "done" ELSE "receive_feedback"
    /\ UNCHANGED <<config, code, tracker, search, guess, history, n_guesses>>

\* code_breaker.receive_feedback(guess, feedback), then the next iteration.
ReceiveFeedback ==
    /\ pc = "receive_feedback"
    /\ LET t == receive_feedback(guess, feedback) IN
          /\ valid_guess' = t.valid_guess
          /\ unseen_colors' = t.unseen_colors
          /\ right_colors' = t.right_colors
          /\ right_colors_found' = t.right_colors_found
    /\ history' = IF auto_feedback
                  THEN Append(history, [guess |-> guess, feedback |-> feedback])
                  ELSE history
    /\ pc' = "make_guess"
    /\ UNCHANGED <<config, code, search, guess, feedback, n_guesses>>

Next ==
    \/ ConstructRejected
    \/ Construct
    \/ MakeCode
    \/ MakeGuess
    \/ SortColors
    \/ TryColor
    \/ Backtrack
    \/ ReturnGuess
    \/ ReturnNone
    \/ NoGuess
    \/ GiveFeedback
    \/ ReceiveFeedback

Spec == Init /\ [][Next]_vars

----------------------------------------------------------------------------
\* The example game of the default configuration (n_colors=6, n_positions=4,
\* duplicates allowed) with the secret 1234: a HumanCodeBreaker, whose
\* make_guess returns any validated code and whose receive_feedback does
\* nothing, against the oracle.

DefaultColors == 6
DefaultPositions == 4
ExampleSecret == [p \in 0 .. 3 |-> p + 1]
ExampleGuess == [p \in 0 .. 3 |-> IF p < 2 THEN 1 ELSE 2]

ExampleInit ==
    /\ pc = "make_guess"
    /\ n_colors = DefaultColors
    /\ n_positions = DefaultPositions
    /\ duplicates_allowed = TRUE
    /\ auto_feedback = TRUE
    /\ code = ExampleSecret
    /\ valid_guess = NoValue
    /\ unseen_colors = {}
    /\ right_colors = {}
    /\ right_colors_found = FALSE
    /\ current_guess = NoValue
    /\ colors_to_check = NoValue
    /\ stack = << >>
    /\ guess = NoValue
    /\ feedback = NoValue
    /\ history = << >>
    /\ n_guesses = 0

\* HumanCodeBreaker.make_guess: any code validate_code accepts.
HumanMakeGuess ==
    /\ pc = "make_guess"
    /\ guess' \in Codes
    /\ pc' = "give_feedback"
    /\ UNCHANGED <<config, code, tracker, search, feedback, history, n_guesses>>

\* HumanCodeBreaker.receive_feedback: pass.
HumanReceiveFeedback ==
    /\ pc = "receive_feedback"
    /\ pc' = "make_guess"
    /\ UNCHANGED <<config, code, tracker, search, guess, feedback, history, n_guesses>>

ExampleNext ==
    \/ HumanMakeGuess
    \/ GiveFeedback
    \/ HumanReceiveFeedback

ExampleSpec == ExampleInit /\ [][ExampleNext]_vars

----------------------------------------------------------------------------
\* The oracle against every guess: a HumanCodeBreaker, whose make_guess
\* returns any validated code, plays a maker that gives automated feedback,
\* in every valid configuration within the bounds.

OracleInit ==
    /\ pc = "make_code"
    /\ n_colors \in 1 .. MaxColors
    /\ n_positions \in 1 .. MaxPositions
    /\ duplicates_allowed \in BOOLEAN
    /\ ~NotEnoughColors
    /\ auto_feedback = TRUE
    /\ code = NoValue
    /\ valid_guess = NoValue
    /\ unseen_colors = {}
    /\ right_colors = {}
    /\ right_colors_found = FALSE
    /\ current_guess = NoValue
    /\ colors_to_check = NoValue
    /\ stack = << >>
    /\ guess = NoValue
    /\ feedback = NoValue
    /\ history = << >>
    /\ n_guesses = 0

OracleNext ==
    \/ MakeCode
    \/ HumanMakeGuess
    \/ GiveFeedback
    \/ HumanReceiveFeedback

OracleSpec == OracleInit /\ [][OracleNext]_vars

----------------------------------------------------------------------------
\* The first two guesses of the computer code breaker against a human code
\* maker who types the feedback, in one wider configuration without
\* duplicates.  The maker's secret is 1234; it plays no part, since the
\* feedback is typed.

WideColors == 5
WidePositions == 4
WideGuesses == 2

WideInit ==
    /\ pc = "make_guess"
    /\ n_colors = WideColors
    /\ n_positions = WidePositions
    /\ duplicates_allowed = FALSE
    /\ auto_feedback = FALSE
    /\ code = [p \in 0 .. (WidePositions - 1) |-> p + 1]
    /\ valid_guess = InitialValidGuess
    /\ unseen_colors = Colors
    /\ right_colors = {}
    /\ right_colors_found = FALSE
    /\ current_guess = NoValue
    /\ colors_to_check = NoValue
    /\ stack = << >>
    /\ guess = NoValue
    /\ feedback = NoValue
    /\ history = << >>
    /\ n_guesses = 0

\* make_guess, as long as fewer than WideGuesses guesses were made
WideMakeGuess == n_guesses < WideGuesses /\ MakeGuess

WideNext ==
    \/ WideMakeGuess
    \/ SortColors
    \/ TryColor
    \/ Backtrack
    \/ ReturnGuess
    \/ ReturnNone
    \/ NoGuess
    \/ GiveFeedback
    \/ ReceiveFeedback

WideSpec == WideInit /\ [][WideNext]_vars

----------------------------------------------------------------------------
\* Properties

\* a guess has just been returned by make_guess
GuessReturned == pc = "give_feedback" /\ guess # NoValue

\* the last feedback is black at every position
AllBlack == feedback # NoValue /\ \A p \in DOMAIN feedback : feedback[p] = "b"

\* the colour indices of the secret
SecretColors == {code[p] - 1 : p \in DOMAIN code}

\* the codes that use a valid, checkable colour at every position and
\* respect the duplicate policy
AcceptableCodes ==
    {g \in [Positions -> 1 .. n_colors] :
        /\ \A p \in Positions :
              valid_guess[p][g[p] - 1] /\ Checkable(g[p] - 1)
        /\ duplicates_allowed \/ Cardinality(Range(g)) = n_positions}

\* C1 as stated: in an oracle game every returned guess, taken as the secret,
\* re-scores every earlier guess to exactly the feedback recorded for it.
C1_RescoresExactly ==
    (auto_feedback /\ GuessReturned) =>
        \A i \in 1 .. Len(history) :
            _auto_feedback(guess, history[i].guess) = history[i].feedback

\* C1 amended: the re-scored peg equals the recorded peg wherever that was
\* black or miss, and is never black where it was white.
C1_RescoresCompatibly ==
    (auto_feedback /\ GuessReturned) =>
        \A i \in 1 .. Len(history) :
            LET again == _auto_feedback(guess, history[i].guess)
                fb == history[i].feedback
            IN  \A p \in Positions :
                    /\ fb[p] \in {"b", "."} => again[p] = fb[p]
                    /\ fb[p] = "w" => again[p] # "b"

C1_Witness ==
    /\ auto_feedback /\ GuessReturned
    /\ \E i \in 1 .. Len(history) : \E p \in Positions :
          /\ history[i].feedback[p] = "w"
          /\ _auto_feedback(guess, history[i].guess)[p] = "."

\* C2: an oracle game never makes more than n_colors * n_positions guesses,
\* ends only on an all-black feedback, and is never stuck before it ends.
C2_BoundedConvergence ==
    auto_feedback =>
        /\ n_guesses <= n_colors * n_positions
        /\ pc = "done" => AllBlack
        /\ pc \notin {"done", "error"} => ENABLED Next

C2_Witness ==
    /\ auto_feedback /\ pc = "done" /\ AllBlack
    /\ n_colors >= 2
    /\ n_guesses = n_colors * n_positions

\* C3: receive_feedback never turns a false entry of the matrix true.
C3_MonotonicShrinkage ==
    [][pc = "receive_feedback" =>
          \A p \in Positions : \A c \in Colors :
              valid_guess'[p][c] => valid_guess[p][c]]_vars

\* receive_feedback has returned from a guess that repeats a colour, black
\* at one position and miss at another.
C3_Witness ==
    /\ pc = "make_guess" /\ n_guesses >= 1
    /\ \E p, q \in Positions :
          /\ guess[p] = guess[q]
          /\ feedback[p] = "." /\ feedback[q] = "b" /\ p < q
          /\ valid_guess[q][guess[q] - 1]

\* C4: without duplicates a returned guess has pairwise-distinct colours.
C4_NoDuplicates ==
    (~duplicates_allowed /\ GuessReturned) =>
        Cardinality(Range(guess)) = n_positions

C4_Witness ==
    /\ ~duplicates_allowed /\ GuessReturned
    /\ n_positions >= 3 /\ n_guesses >= 2
    /\ \E p \in Positions : \E q \in Positions :
          p # q /\ valid_guess[p][guess[q] - 1]

\* C5: make_guess returns None exactly when no acceptable code exists, and
\* otherwise returns an acceptable code.
C5_NoneIffNoCode ==
    pc = "give_feedback" =>
        /\ guess = NoValue <=> AcceptableCodes = {}
        /\ guess # NoValue => guess \in AcceptableCodes

\* None although every position still has a valid checkable colour: only
\* the duplicate policy rules every code out.
C5_Witness ==
    /\ pc = "give_feedback" /\ guess = NoValue
    /\ \A p \in Positions : \E c \in Colors : valid_guess[p][c] /\ Checkable(c)

\* C6: in an oracle game make_guess never returns None; the secret stays
\* valid in the matrix and checkable.
C6_OracleNeverNone ==
    auto_feedback =>
        /\ pc = "give_feedback" => guess # NoValue
        /\ code # NoValue =>
              \A p \in Positions :
                  valid_guess[p][code[p] - 1] /\ Checkable(code[p] - 1)

C6_Witness ==
    /\ auto_feedback /\ GuessReturned
    /\ right_colors_found
    /\ n_guesses >= 3

\* C7: the flag never goes back to false, and whenever it is true the
\* unseen set is empty.
C7_CompletionFlag ==
    [][/\ right_colors_found => right_colors_found'
       /\ right_colors_found' => unseen_colors' = {}]_vars

\* the first guess tried every colour, which set the flag, and
\* receive_feedback has been called again since
C7_Witness ==
    /\ auto_feedback /\ duplicates_allowed /\ pc = "make_guess"
    /\ Len(history) >= 2
    /\ Range(history[1].guess) = 1 .. n_colors
    /\ right_colors_found /\ unseen_colors = {}

\* C8 as stated: the oracle scores 1122 against 1234 as black, miss, miss, miss.
C8_ExampleAsStated ==
    (pc = "receive_feedback" /\ code = ExampleSecret /\ guess = ExampleGuess) =>
        feedback = [p \in 0 .. 3 |-> IF p = 0 THEN "b" ELSE "."]

\* C8 amended: the oracle scores 1122 against 1234 as black, white, white, white.
C8_ExampleScore ==
    (pc = "receive_feedback" /\ code = ExampleSecret /\ guess = ExampleGuess) =>
        feedback = [p \in 0 .. 3 |-> IF p = 0 THEN "b" ELSE "w"]

C8_Witness ==
    /\ pc = "receive_feedback" /\ code = ExampleSecret /\ guess = ExampleGuess
    /\ n_colors = 6 /\ n_positions = 4 /\ duplicates_allowed

\* C9: in an oracle game the right colours are always colours of the secret,
\* and are all of them once the flag is true.
C9_RightColorsKnown ==
    (auto_feedback /\ code # NoValue) =>
        /\ right_colors \subseteq SecretColors
        /\ right_colors_found => right_colors = SecretColors

C9_Witness ==
    /\ auto_feedback /\ right_colors_found /\ pc = "make_guess"
    /\ right_colors = SecretColors
    /\ Cardinality(SecretColors) < n_positions

\* C10: the tracker changes only in receive_feedback (and when it is built);
\* no step of make_guess changes it.
C10_SearchReadOnly ==
    [][tracker' # tracker => pc \in {"init", "receive_feedback"}]_vars

\* the search has backtracked: a position at or beyond the current one
\* still holds the colour of an abandoned branch
C10_Witness ==
    /\ pc = "for"
    /\ \E p \in Positions : p >= Len(stack) /\ current_guess[p] # None


\* C11: a configuration without duplicates and with more positions than
\* colours is rejected with nothing built; every configuration that gets
\* past construction allows duplicates or has n_positions <= n_colors.
C11_ConfigurationValidated ==
    /\ pc = "error" =>
          /\ ~duplicates_allowed /\ n_positions > n_colors
          /\ valid_guess = NoValue /\ code = NoValue
          /\ stack = << >> /\ n_guesses = 0
    /\ pc \notin {"init", "error"} =>
          duplicates_allowed \/ n_positions <= n_colors

C11_Witness ==
    /\ pc = "error"
    /\ ~duplicates_allowed /\ n_positions = n_colors + 1
    /\ valid_guess = NoValue /\ n_guesses = 0


\* C12: receive_feedback never adds a colour to the unseen set, never removes
\* one from the right set, and leaves no colour of the guess unseen.
C12_SetMonotonicity ==
    [][pc = "receive_feedback" =>
          /\ unseen_colors' \subseteq unseen_colors
          /\ right_colors \subseteq right_colors'
          /\ \A p \in Positions : guess[p] - 1 \notin unseen_colors']_vars

\* receive_feedback has returned from a guess with a miss on a colour; some
\* colours are still unseen and some are right
C12_Witness ==
    /\ pc = "make_guess" /\ n_guesses >= 2
    /\ \E p \in Positions : feedback[p] = "." /\ guess[p] - 1 \notin unseen_colors
    /\ unseen_colors # {} /\ right_colors # {}


\* the colour is at a position before k of the guess being built
PlacedBefore(color, k) ==
    \E j \in Positions : j < k /\ current_guess[j] = color + 1

\* C13: whenever _make_guess is about to order the candidates of a position,
\* a candidate has key 2 only if it is unseen and placed at an earlier
\* position of the guess being built, and every unseen candidate that is
\* not placed earlier has key 0.
C13_KeyFromCurrentGuessOnly ==
    (pc = "_make_guess" /\ current_position < n_positions) =>
        \A color \in ValidColors(colors_to_check, current_position) :
            /\ SortKey(color, current_guess) = 2 =>
                  color \in unseen_colors /\ PlacedBefore(color, current_position)
            /\ (color \in unseen_colors /\ ~PlacedBefore(color, current_position)) =>
                  SortKey(color, current_guess) = 0


\* the colour guessed at p has a miss peg at a later position of the guess
MissedLater(p) ==
    \E q \in Positions : q > p /\ guess[q] = guess[p] /\ feedback[q] = "."

\* C14 as stated: after receive_feedback, the row of every black position
\* holds exactly the guessed colour, and without duplicates that colour is
\* false at every other position.
C14_BlackPinsAsStated ==
    [][pc = "receive_feedback" =>
          \A p \in Positions : feedback[p] = "b" =>
              /\ \A c \in Colors : valid_guess'[p][c] <=> c = guess[p] - 1
              /\ ~duplicates_allowed =>
                    \A q \in Positions \ {p} : ~valid_guess'[q][guess[p] - 1]]_vars

\* C14 amended: the row of a black position holds no colour but the guessed
\* one, and holds the guessed one unless the same colour has a miss peg at a
\* later position of the same guess; without duplicates the colour is false
\* at every other position.
C14_BlackPins ==
    [][pc = "receive_feedback" =>
          \A p \in Positions : feedback[p] = "b" =>
              /\ \A c \in Colors : valid_guess'[p][c] => c = guess[p] - 1
              /\ valid_guess'[p][guess[p] - 1] <=> ~MissedLater(p)
              /\ ~duplicates_allowed =>
                    \A q \in Positions \ {p} : ~valid_guess'[q][guess[p] - 1]]_vars

\* receive_feedback has returned from a black peg followed by a miss on the
\* same colour: the row of the black position is empty
C14_Witness ==
    /\ pc = "make_guess" /\ n_guesses >= 1
    /\ \E p \in Positions :
          /\ feedback[p] = "b" /\ MissedLater(p)
          /\ \A c \in Colors : ~valid_guess[p][c]

\* a feedback has just been given for guess
FeedbackGiven == pc \in {"receive_feedback", "done"} /\ feedback # NoValue

\* C15: the oracle gives black exactly where the guess equals the secret,
\* white exactly where it differs but the guessed colour occurs somewhere in
\* the secret, and miss exactly where the colour occurs nowhere in it.
C15_OracleRule ==
    (auto_feedback /\ FeedbackGiven) =>
        \A p \in Positions :
            /\ feedback[p] = "b" <=> guess[p] = code[p]
            /\ feedback[p] = "w" <=>
                  (guess[p] # code[p] /\ \E q \in Positions : code[q] = guess[p])
            /\ feedback[p] = "." <=> \A q \in Positions : code[q] # guess[p]

\* two white pegs for a colour the secret holds only once
C15_Witness ==
    /\ auto_feedback /\ FeedbackGiven
    /\ \E p, q \in Positions :
          /\ p # q /\ guess[p] = guess[q]
          /\ feedback[p] = "w" /\ feedback[q] = "w"
          /\ Cardinality({r \in Positions : code[r] = guess[p]}) = 1


\* C16: make_code comes first; then make_guess, give_feedback and
\* receive_feedback follow one another in this order.  The guess changes only
\* when make_guess returns and the feedback only when give_feedback is called
\* for a guess, so receive_feedback gets the last guess and its feedback.  An
\* all-black feedback ends the loop with no receive_feedback, a None guess
\* ends it with no give_feedback, and nothing happens after the end.
C16_TurnLoopOrder ==
    [][/\ pc # "done"
       /\ pc = "make_code" => pc' = "make_guess"
       /\ pc' = "make_guess" => pc \in {"make_code", "receive_feedback"}
       /\ n_guesses' # n_guesses => pc = "make_guess" /\ pc' = "_make_guess"
       /\ guess' # guess =>
             pc \in {"_make_guess", "for"} /\ pc' = "give_feedback"
       /\ pc' = "give_feedback" => pc \in {"_make_guess", "for"}
       /\ feedback' # feedback => pc = "give_feedback" /\ guess # NoValue
       /\ pc = "give_feedback" =>
             /\ UNCHANGED tracker
             /\ guess = NoValue => pc' = "done" /\ feedback' = feedback
             /\ guess # NoValue =>
                   pc' = (IF \A p \in Positions : feedback'[p] = "b"
                          THEN "done" ELSE "receive_feedback")
       /\ pc' = "receive_feedback" => pc = "give_feedback"
       /\ pc = "receive_feedback" =>
             /\ pc' = "make_guess"
             /\ auto_feedback =>
                   history' = Append(history, [guess |-> guess,
                                               feedback |-> feedback])
       /\ pc' = "done" => pc = "give_feedback"]_vars

\* the loop has ended on a None guess after at least two complete turns
C16_Witness ==
    /\ pc = "done" /\ guess = NoValue
    /\ n_guesses >= 3
    /\ feedback # NoValue /\ ~AllBlack


\* the number of true entries of a validity matrix
TrueEntries(vg) ==
    Cardinality({pq \in Positions \X Colors : vg[pq[1]][pq[2]]})

\* C17: under any validated feedback every receive_feedback makes at least
\* one true entry of the matrix false and none true, the loop makes at most
\* n_colors * n_positions + 1 guesses, each of which it is free to ask for,
\* and it ends only on an all-black feedback or a None guess.
C17_LoopEnds ==
    /\ [][pc = "receive_feedback" =>
             /\ \A p \in Positions : \A c \in Colors :
                   valid_guess'[p][c] => valid_guess[p][c]
             /\ TrueEntries(valid_guess') < TrueEntries(valid_guess)]_vars
    /\ [](/\ n_guesses <= n_colors * n_positions + 1
          /\ pc = "make_guess" => ENABLED MakeGuess
          /\ pc = "done" => AllBlack \/ guess = NoValue)

\* typed feedback has emptied the search: the loop has ended on a None guess
\* after the matrix lost entries in two or more turns
C17_Witness ==
    /\ ~auto_feedback /\ pc = "done" /\ guess = NoValue
    /\ n_guesses >= 3
    /\ TrueEntries(valid_guess) <= n_colors * n_positions - 2


\* C18: no colour is both right and unseen, so every checkable colour is
\* exactly one of the two.
C18_RightUnseenDisjoint ==
    /\ right_colors \cap unseen_colors = {}
    /\ colors_to_check # NoValue =>
          \A c \in Colors :
             colors_to_check[c] => (c \in right_colors) # (c \in unseen_colors)

\* a search is going through candidates of both kinds
C18_Witness ==
    /\ pc = "for"
    /\ \E c \in Range(Top.valid_colors) : c \in right_colors
    /\ \E c \in Range(Top.valid_colors) : c \in unseen_colors


\* C19: with at least as many colours as positions, the opening guess is
\* never None and holds pairwise-distinct colours, duplicates allowed or not.
C19_OpeningGuessDistinct ==
    (n_guesses = 1 /\ pc = "give_feedback" /\ n_colors >= n_positions) =>
        /\ guess # NoValue
        /\ \A p, q \in Positions : p # q => guess[p] # guess[q]

\* an opening guess of several positions in a game that allows duplicates
C19_Witness ==
    /\ n_guesses = 1 /\ pc = "give_feedback" /\ guess # NoValue
    /\ duplicates_allowed
    /\ n_positions >= 2 /\ n_colors >= n_positions

====
